---------------------------- MODULE Spec2Model ----------------------------
(***************************************************************************)
(* A model of subsflow.py: the caption parser, the rolling-window          *)
(* deduplicator (clean), the translation table writer (prep), the row      *)
(* repair, the cross-validator and the alignment engine (rejoin).          *)
(*                                                                         *)
(* A string is a sequence of one-character strings, so that whitespace     *)
(* normalisation, sanitising, escaping and splitting are computed          *)
(* character by character as the code computes them.                       *)
(***************************************************************************)
EXTENDS Integers, Sequences, FiniteSets, TLC

(***************************************************************************)
(* Bounds of the model.                                                    *)
(***************************************************************************)
\* Longest caption text, in tokens, of the exhaustive caption inputs.
MaxTokens == 2
\* Longest caption sequence given to clean.
MaxEntries == 2
\* Longest caption sequence given to rejoin (exhaustive inputs).
MaxOrig == 2
\* Longest translated table given to rejoin (exhaustive inputs).
MaxRows == 2
\* Most blocks in a caption file given to the parser.
MaxBlocks == 2

(***************************************************************************)
(* Characters.                                                             *)
(***************************************************************************)
\* What re's \s matches and str.strip() / str.split() treat as whitespace.
Whitespace == {" ", "\t", "\n", "\r"}

DigitChars == {"0", "1", "2", "3", "4", "5", "6", "7", "8", "9"}

UpperChars == {"A", "B"}

LowerChars ==
    {"a", "b", "c", "d", "e", "f", "g", "h", "i", "j", "k", "l", "m",
     "n", "o", "p", "q", "r", "s", "t", "u", "v", "w", "x", "y", "z"}

\* What [\w'] matches: letters, digits, underscore and the apostrophe.
WordChars == LowerChars \cup UpperChars \cup DigitChars \cup {"_", "'"}

\* str.lower() on one character.
lower_char(c) ==
    CASE c = "A" -> "a"
      [] c = "B" -> "b"
      [] OTHER -> c

lower(s) == [i \in 1..Len(s) |-> lower_char(s[i])]

(***************************************************************************)
(* Generic string helpers (Python built-ins).                              *)
(***************************************************************************)
RECURSIVE lstrip_ws(_)
lstrip_ws(s) ==
    IF s = <<>> \/ Head(s) \notin Whitespace THEN s ELSE lstrip_ws(Tail(s))

RECURSIVE rstrip_ws(_)
rstrip_ws(s) ==
    IF s = <<>> \/ s[Len(s)] \notin Whitespace THEN s
    ELSE rstrip_ws(SubSeq(s, 1, Len(s) - 1))

\* str.strip()
strip(s) == rstrip_ws(lstrip_ws(s))

\* str.split() with no argument: the maximal runs of non-whitespace.
RECURSIVE split_from(_, _, _)
split_from(s, i, cur) ==
    IF i > Len(s) THEN (IF cur = <<>> THEN <<>> ELSE <<cur>>)
    ELSE IF s[i] \in Whitespace
         THEN (IF cur = <<>> THEN <<>> ELSE <<cur>>) \o split_from(s, i + 1, <<>>)
         ELSE split_from(s, i + 1, Append(cur, s[i]))

split(s) == split_from(s, 1, <<>>)

\* sep.join(parts)
RECURSIVE join(_, _)
join(sep, parts) ==
    IF parts = <<>> THEN <<>>
    ELSE IF Len(parts) = 1 THEN parts[1]
    ELSE parts[1] \o sep \o join(sep, Tail(parts))

\* re.sub(r"\s+", " ", s): every maximal whitespace run becomes one space.
RECURSIVE collapse_ws(_)
collapse_ws(s) ==
    IF s = <<>> THEN <<>>
    ELSE IF Head(s) \in Whitespace
         THEN <<" ">> \o collapse_ws(lstrip_ws(s))
         ELSE <<Head(s)>> \o collapse_ws(Tail(s))

\* normalize_space(s) = re.sub(r"\s+", " ", s).strip()
normalize_space(s) == strip(collapse_ws(s))

\* normalize_text(s) = re.sub(r"\s+", " ", s).strip()
normalize_text(s) == strip(collapse_ws(s))

(***************************************************************************)
(* CLEAN: comparison tokens and the longest suffix/prefix overlap.         *)
(***************************************************************************)
RECURSIVE lstrip_nonword(_)
lstrip_nonword(t) ==
    IF t = <<>> \/ Head(t) \in WordChars THEN t ELSE lstrip_nonword(Tail(t))

RECURSIVE rstrip_nonword(_)
rstrip_nonword(t) ==
    IF t = <<>> \/ t[Len(t)] \in WordChars THEN t
    ELSE rstrip_nonword(SubSeq(t, 1, Len(t) - 1))

\* sanitize_word(tok) = re.sub(r"^[^\w']+|[^\w']+$", "", tok).lower()
sanitize_word(tok) == lower(rstrip_nonword(lstrip_nonword(tok)))

\* The raw indices (1-based) of the tokens whose sanitised form is not empty.
RECURSIVE san_indices(_, _)
san_indices(raw, i) ==
    IF i > Len(raw) THEN <<>>
    ELSE IF sanitize_word(raw[i]) # <<>>
         THEN <<i>> \o san_indices(raw, i + 1)
         ELSE san_indices(raw, i + 1)

\* [sanitize_word(t) for t in raw if sanitize_word(t)]
san_tokens(raw) ==
    LET idx == san_indices(raw, 1)
    IN  [j \in 1..Len(idx) |-> sanitize_word(raw[idx[j]])]

Min(a, b) == IF a < b THEN a ELSE b

\* Mutant: the loop runs upwards and returns the smallest matching k.
overlap_search_smallest(prev_san, curr_san, k) ==
    LET hits == {j \in 1..k :
                    SubSeq(prev_san, Len(prev_san) - j + 1, Len(prev_san))
                        = SubSeq(curr_san, 1, j)}
    IN  IF hits = {} THEN 0 ELSE CHOOSE j \in hits : \A h \in hits : j <= h

\* The for loop "for k in range(max_k, 0, -1)": the first k, from the largest
\* down, whose suffix of prev_san equals the prefix of curr_san; 0 if none.
RECURSIVE overlap_search(_, _, _)
overlap_search(prev_san, curr_san, k) ==
    IF k = 0 THEN 0
    ELSE IF SubSeq(prev_san, Len(prev_san) - k + 1, Len(prev_san))
              = SubSeq(curr_san, 1, k)
         THEN k
         ELSE overlap_search(prev_san, curr_san, k - 1)

\* The number of raw tokens to drop from the start of curr_text.
longest_suffix_prefix_overlap(prev_text, curr_text) ==
    LET prev_norm == normalize_text(prev_text)
        curr_norm == normalize_text(curr_text)
        prev_raw  == split(prev_norm)
        curr_raw  == split(curr_norm)
        prev_san  == san_tokens(prev_raw)
        curr_san  == san_tokens(curr_raw)
        raw_idx_for_curr_san == san_indices(curr_raw, 1)
        max_k     == Min(Len(prev_san), Len(curr_san))
        k         == overlap_search(prev_san, curr_san, max_k)
    IN  IF prev_norm = <<>> \/ curr_norm = <<>> THEN 0
        ELSE IF prev_san = <<>> \/ curr_san = <<>> THEN 0
        ELSE IF k = 0 THEN 0
        \* raw_idx_for_curr_san[k - 1] is a 0-based index; ours are 1-based.
        ELSE (raw_idx_for_curr_san[k] - 1) + 1


(***************************************************************************)
(* Caption records.                                                        *)
(***************************************************************************)
\* cap_id = None: the caption has no numeric id.  Real ids are \d+, so >= 0.
NoId == -1

\* One entry of parse_srt's result.
Entry(seq, id, start, end, text_lines, text) ==
    [seq |-> seq, id |-> id, start |-> start, end |-> end,
     text_lines |-> text_lines, text |-> text]

(***************************************************************************)
(* CLEAN: one iteration of cmd_clean's loop.                               *)
(***************************************************************************)
\* Mutant: the slice starts one token early (raw_tokens[drop - 1:]).
clean_candidate_early(prev_window, curr_text) ==
    LET drop == longest_suffix_prefix_overlap(prev_window, curr_text)
        raw_tokens == split(curr_text)
    IN  IF drop > 0
        THEN strip(join(<<" ">>, SubSeq(raw_tokens, drop, Len(raw_tokens))))
        ELSE curr_text

\* The candidate text: curr_text without its first `drop` raw tokens.
clean_candidate(prev_window, curr_text) ==
    LET drop == longest_suffix_prefix_overlap(prev_window, curr_text)
        raw_tokens == split(curr_text)
    IN  IF drop > 0
        THEN strip(join(<<" ">>, SubSeq(raw_tokens, drop + 1, Len(raw_tokens))))
        ELSE curr_text

\* new_e = dict(e); new_e["text"] = curr_new
emit_record(e, curr_new) == [e EXCEPT !.text = curr_new]

\* Mutant: the comparison with the last emitted record is left out.
clean_emits_repeats(out, prev_window, e) ==
    LET curr_text == normalize_text(e.text)
    IN  curr_text # <<>> /\ clean_candidate(prev_window, curr_text) # <<>>

\* Whether the loop body reaches cleaned.append(new_e) for this entry.
clean_emits(out, prev_window, e) ==
    LET curr_text == normalize_text(e.text)
        curr_new  == clean_candidate(prev_window, curr_text)
    IN  /\ curr_text # <<>>
        /\ curr_new # <<>>
        /\ ~(out # <<>> /\ normalize_text(out[Len(out)].text) = curr_new)

\* Mutant: the window follows the text that was kept after trimming.
window_after_trimmed(curr_text, curr_new) == curr_new

\* prev_window_text after the loop body, on each of its four branches.
window_after(curr_text, curr_new) == curr_text

\* The branch the loop body takes for entry e: the three "continue" and
\* the append.
clean_branch(out, prev_window, e) ==
    LET curr_text == normalize_text(e.text)
        curr_new  == clean_candidate(prev_window, curr_text)
    IN  IF curr_text = <<>> THEN "empty_text"
        ELSE IF curr_new = <<>> THEN "empty_candidate"
        ELSE IF ~clean_emits(out, prev_window, e) THEN "duplicate"
        ELSE "emitted"

\* The loop body: the emitted records and the window after entry e.
clean_body(out, prev_window, e) ==
    LET curr_text == normalize_text(e.text)
        curr_new  == clean_candidate(prev_window, curr_text)
    IN  [cleaned |-> IF clean_emits(out, prev_window, e)
                     THEN Append(out, emit_record(e, curr_new))
                     ELSE out,
         prev_window_text |-> window_after(curr_text, curr_new)]

(***************************************************************************)
(* Numbers in text.                                                        *)
(***************************************************************************)
DigitValue(c) ==
    CASE c = "0" -> 0 [] c = "1" -> 1 [] c = "2" -> 2 [] c = "3" -> 3
      [] c = "4" -> 4 [] c = "5" -> 5 [] c = "6" -> 6 [] c = "7" -> 7
      [] c = "8" -> 8 [] OTHER -> 9

\* str.isdigit() and re.fullmatch(r"\d+", s): not empty, digits only.
isdigit(s) == s # <<>> /\ \A i \in 1..Len(s) : s[i] \in DigitChars

\* int(s) for a string of digits with optional surrounding whitespace.
RECURSIVE int_of_digits(_)
int_of_digits(d) ==
    IF d = <<>> THEN 0
    ELSE 10 * int_of_digits(SubSeq(d, 1, Len(d) - 1)) + DigitValue(d[Len(d)])

int(s) == int_of_digits(strip(s))

\* str(n) for n >= 0.
RECURSIVE str_of_int(_)
str_of_int(n) ==
    LET d == CHOOSE c \in DigitChars : DigitValue(c) = n % 10
    IN  IF n < 10 THEN <<d>> ELSE str_of_int(n \div 10) \o <<d>>

(***************************************************************************)
(* Lists and dicts.                                                        *)
(***************************************************************************)
\* lst[:n]
Take(lst, n) == SubSeq(lst, 1, Min(n, Len(lst)))

Range(f) == {f[i] : i \in DOMAIN f}

\* The keys of a dict filled from the list `keys`, in insertion order: each
\* key at its first occurrence.
RECURSIVE dict_keys(_)
dict_keys(keys) ==
    IF keys = <<>> THEN <<>>
    ELSE LET front == dict_keys(SubSeq(keys, 1, Len(keys) - 1))
             k == keys[Len(keys)]
         IN  IF k \in Range(front) THEN front ELSE Append(front, k)

\* [x for x in lst if x not in other]
RECURSIVE list_minus(_, _)
list_minus(lst, other) ==
    IF lst = <<>> THEN <<>>
    ELSE IF Head(lst) \in other THEN list_minus(Tail(lst), other)
    ELSE <<Head(lst)>> \o list_minus(Tail(lst), other)

\* list(sorted(S)) for a set of integers.
RECURSIVE sorted(_)
sorted(S) ==
    IF S = {} THEN <<>>
    ELSE LET m == CHOOSE x \in S : \A y \in S : x <= y
         IN  <<m>> \o sorted(S \ {m})

(***************************************************************************)
(* TSV escaping.                                                           *)
(***************************************************************************)
\* s.replace("\r\n", "\n").replace("\r", "\n"): both end as one "\n".
RECURSIVE unify_newlines(_)
unify_newlines(s) ==
    IF s = <<>> THEN <<>>
    ELSE IF Len(s) >= 2 /\ s[1] = "\r" /\ s[2] = "\n"
         THEN <<"\n">> \o unify_newlines(SubSeq(s, 3, Len(s)))
    ELSE IF s[1] = "\r" THEN <<"\n">> \o unify_newlines(Tail(s))
    ELSE <<s[1]>> \o unify_newlines(Tail(s))

\* s.replace("\n", r"\n"): a newline becomes the two characters \ and n.
RECURSIVE newlines_to_escapes(_)
newlines_to_escapes(s) ==
    IF s = <<>> THEN <<>>
    ELSE IF s[1] = "\n" THEN <<"\\", "n">> \o newlines_to_escapes(Tail(s))
    ELSE <<s[1]>> \o newlines_to_escapes(Tail(s))

escape_newlines_for_tsv(s) == newlines_to_escapes(unify_newlines(s))

\* s.replace(r"\n", "\n"): the two characters \ and n become a newline.
RECURSIVE unescape_newlines_from_tsv(_)
unescape_newlines_from_tsv(s) ==
    IF s = <<>> THEN <<>>
    ELSE IF Len(s) >= 2 /\ s[1] = "\\" /\ s[2] = "n"
         THEN <<"\n">> \o unescape_newlines_from_tsv(SubSeq(s, 3, Len(s)))
    ELSE <<s[1]>> \o unescape_newlines_from_tsv(Tail(s))

\* s.replace("\n", " ")
newlines_to_spaces(s) == [i \in 1..Len(s) |-> IF s[i] = "\n" THEN " " ELSE s[i]]

(***************************************************************************)
(* PREP and the row reader.                                                *)
(***************************************************************************)
\* caption_id(e) of write_translation_prep.
caption_id(e, id_source) ==
    IF id_source = "seq" THEN e.seq
    ELSE IF e.id # NoId THEN e.id ELSE e.seq

\* The line write_translation_prep writes for one entry (fmt = "tsv"),
\* without its final line break.
prep_line(e, id_source, join_with, tsv_columns) ==
    LET cid  == caption_id(e, id_source)
        text == IF join_with = "keep" /\ e.text_lines # <<>>
                THEN strip(join(<<"\n">>, e.text_lines))
                ELSE e.text
        text_tsv == escape_newlines_for_tsv(text)
    IN  IF tsv_columns = 3
        THEN str_of_int(cid) \o <<"\t">> \o text_tsv \o <<"\t">>
        ELSE str_of_int(cid) \o <<"\t">> \o text_tsv

write_translation_prep(ents, id_source, join_with, tsv_columns) ==
    [i \in 1..Len(ents) |-> prep_line(ents[i], id_source, join_with, tsv_columns)]

\* line.split("\t")
RECURSIVE split_tabs_from(_, _, _)
split_tabs_from(s, i, cur) ==
    IF i > Len(s) THEN <<cur>>
    ELSE IF s[i] = "\t" THEN <<cur>> \o split_tabs_from(s, i + 1, <<>>)
    ELSE split_tabs_from(s, i + 1, Append(cur, s[i]))

split_tabs(line) == split_tabs_from(line, 1, <<>>)

\* The rows of read_tsv_with_report: the tab-split fields of every line that
\* is not blank.
RECURSIVE read_rows(_)
read_rows(lines) ==
    IF lines = <<>> THEN <<>>
    ELSE IF strip(Head(lines)) = <<>> THEN read_rows(Tail(lines))
    ELSE <<split_tabs(Head(lines))>> \o read_rows(Tail(lines))

(***************************************************************************)
(* Row repair.                                                             *)
(***************************************************************************)
\* Mutant: the id column is taken as it stands, its blanks kept.
fix_row_id_untrimmed(parts) ==
    LET n == Len(parts)
        english == IF n = 2 THEN <<>>
                   ELSE strip(join(<<"\t">>, [j \in 1..(n - 2) |-> strip(parts[j + 1])]))
    IN  <<parts[1], collapse_ws(english), collapse_ws(strip(parts[n]))>>

\* The row fix_tsv_rows_merge_middle_columns appends for parts (>= 2 fields).
fix_row(parts) ==
    LET n   == Len(parts)
        cid == strip(parts[1])
        english == IF n = 2 THEN <<>>
                   ELSE strip(join(<<"\t">>, [j \in 1..(n - 2) |-> strip(parts[j + 1])]))
        french == strip(parts[n])
    IN  <<cid, collapse_ws(english), collapse_ws(french)>>

RECURSIVE fix_tsv_rows_merge_middle_columns(_)
fix_tsv_rows_merge_middle_columns(rows) ==
    IF rows = <<>> THEN <<>>
    ELSE IF Len(Head(rows)) < 2
         THEN fix_tsv_rows_merge_middle_columns(Tail(rows))
         ELSE <<fix_row(Head(rows))>> \o fix_tsv_rows_merge_middle_columns(Tail(rows))

(***************************************************************************)
(* Pair extraction.                                                        *)
(***************************************************************************)
TranslationCols == {"auto", "last", "2", "3"}

\* The column index (1-based) of the translation in parts, 0 when the row
\* lacks the chosen column (ValueError).
translation_index(parts, translation_col) ==
    CASE translation_col \in {"auto", "last"} -> Len(parts)
      [] translation_col = "2" -> IF Len(parts) < 2 THEN 0 ELSE 2
      [] OTHER -> IF Len(parts) < 3 THEN 0 ELSE 3

\* The text of a pair: unescaped, line breaks to spaces, normalised.
pair_text(field) ==
    normalize_space(newlines_to_spaces(unify_newlines(unescape_newlines_from_tsv(field))))

Pair(cid, text) == [id |-> cid, text |-> text]

\* The (id, text) pairs of the rows, or the ValueError of the first row that
\* lacks the chosen column.
RECURSIVE parse_translated_pairs_from_rows(_, _)
parse_translated_pairs_from_rows(rows, translation_col) ==
    IF rows = <<>> THEN [ok |-> TRUE, pairs |-> <<>>]
    ELSE
      LET parts == Head(rows)
          rest  == parse_translated_pairs_from_rows(Tail(rows), translation_col)
          pos   == translation_index(parts, translation_col)
      IN  IF Len(parts) < 2 \/ ~isdigit(strip(parts[1])) THEN rest
          ELSE IF pos = 0 THEN [ok |-> FALSE, pairs |-> <<>>]
          ELSE IF ~rest.ok THEN rest
          ELSE [ok |-> TRUE,
                pairs |-> <<Pair(int(parts[1]), pair_text(parts[pos]))>> \o rest.pairs]

(***************************************************************************)
(* Alignment engine.                                                       *)
(***************************************************************************)
\* How many ids an error message samples: the slices [:10].
SampleLimit == 10

\* What rejoin_translations returns (ok) or raises (not ok: a ValueError of
\* the given kind, with the ids its message lists; nothing is returned).
Merged(recs) ==
    [ok |-> TRUE, merged |-> recs, error |-> "none", missing |-> <<>>, extra |-> <<>>]

Raised(kind, missing, extra) ==
    [ok |-> FALSE, merged |-> <<>>, error |-> kind, missing |-> missing, extra |-> extra]

\* Mutant: a fresh record is built and the id is not carried over.
with_text_unnumbered(e, txt) == [e EXCEPT !.text = txt, !.id = NoId]

\* e = dict(original); e["text"] = txt
with_text(e, txt) == [e EXCEPT !.text = txt]

\* Mutant: the first pair of an id wins instead of the last.
trans_lookup_first(translated_pairs, oid) ==
    LET at == {i \in 1..Len(translated_pairs) : translated_pairs[i].id = oid}
        first == CHOOSE i \in at : \A j \in at : i <= j
    IN  translated_pairs[first].text

\* trans_by_id[oid] of {cid: txt for cid, txt in translated_pairs}: the text
\* of the last pair whose id is oid.
trans_lookup(translated_pairs, oid) ==
    LET at == {i \in 1..Len(translated_pairs) : translated_pairs[i].id = oid}
        last == CHOOSE i \in at : \A j \in at : j <= i
    IN  translated_pairs[last].text

\* "if strict and n != n_orig" of the seq branch.
seq_strict_raises(strict_mode, n, n_orig, n_trans) == strict_mode /\ n # n_orig

\* Mutant: the index is one too low (Python's [-1] is the last pair).
seq_text_shifted(translated_pairs, i) ==
    IF i = 1 THEN translated_pairs[Len(translated_pairs)].text
    ELSE translated_pairs[i - 1].text

\* translated_pairs[i][1], for the i-th merged record.
seq_text(translated_pairs, i) == translated_pairs[i].text

rejoin_by_seq(original_entries, translated_pairs, strict_mode) ==
    LET n_orig == Len(original_entries)
        n_trans == Len(translated_pairs)
        n == Min(n_orig, n_trans)
        merged == [i \in 1..n |-> with_text(original_entries[i], seq_text(translated_pairs, i))]
    IN  IF seq_strict_raises(strict_mode, n, n_orig, n_trans)
        THEN Raised("fewer_translated", <<>>, <<>>)
        ELSE Merged(merged)

\* Mutant: only the first original is looked at.
lacks_id_first(original_entries) ==
    original_entries # <<>> /\ original_entries[1].id = NoId

\* "if e.get("id") is None: raise" for some entry of the originals.
lacks_id(original_entries) ==
    \E i \in 1..Len(original_entries) : original_entries[i].id = NoId

\* Mutant: ids the translation adds are not looked at.
id_mismatch_missing_only(missing_in_trans, extra_in_trans) ==
    missing_in_trans # <<>>

\* "if missing_in_trans or extra_in_trans"
id_mismatch(missing_in_trans, extra_in_trans) ==
    missing_in_trans # <<>> \/ extra_in_trans # <<>>

\* The text the merge loop gives the entry with id oid, when it has one.
merged_text(translated_pairs, trans_keys, oid) ==
    IF oid \in Range(trans_keys) THEN trans_lookup(translated_pairs, oid) ELSE <<>>

rejoin_by_id(original_entries, translated_pairs, strict_mode) ==
    LET orig_keys  == dict_keys([i \in 1..Len(original_entries) |-> original_entries[i].id])
        trans_keys == dict_keys([i \in 1..Len(translated_pairs) |-> translated_pairs[i].id])
        missing_in_trans == list_minus(orig_keys, Range(trans_keys))
        extra_in_trans   == list_minus(trans_keys, Range(orig_keys))
        untranslated == {i \in 1..Len(original_entries) :
                           original_entries[i].id \notin Range(trans_keys)}
        merged == [i \in 1..Len(original_entries) |->
                     with_text(original_entries[i],
                               merged_text(translated_pairs, trans_keys,
                                           original_entries[i].id))]
    IN  IF lacks_id(original_entries)
        THEN Raised("original_lacks_ids", <<>>, <<>>)
        ELSE IF strict_mode /\ id_mismatch(missing_in_trans, extra_in_trans)
        THEN Raised("id_mismatch", Take(missing_in_trans, SampleLimit),
                    Take(extra_in_trans, SampleLimit))
        ELSE IF strict_mode /\ Len(trans_keys) # Len(orig_keys)
        THEN Raised("count_mismatch", <<>>, <<>>)
        ELSE IF strict_mode /\ untranslated # {}
        THEN Raised("missing_translation", <<>>, <<>>)
        ELSE Merged(merged)

rejoin_translations(original_entries, translated_pairs, align_mode, strict_mode) ==
    IF align_mode = "seq"
    THEN rejoin_by_seq(original_entries, translated_pairs, strict_mode)
    ELSE rejoin_by_id(original_entries, translated_pairs, strict_mode)

(***************************************************************************)
(* Cross-validator.                                                        *)
(***************************************************************************)
Verdict(ok, msg, missing, extra) ==
    [ok |-> ok, msg |-> msg, missing |-> missing, extra |-> extra]

\* Mutant: alignment by position is passed without comparing the counts.
validate_counts_unchecked(rows, srt_entries, align_mode) ==
    LET id_rows == SelectSeq(rows, LAMBDA r : r # <<>> /\ isdigit(strip(r[1])))
    IN  IF Len(id_rows) # Len(rows)
        THEN [ok |-> FALSE, msg |-> "non_numeric_ids", missing |-> <<>>, extra |-> <<>>]
        ELSE [ok |-> align_mode = "seq" \/ Len(rows) = Len(srt_entries),
              msg |-> "consistent", missing |-> <<>>, extra |-> <<>>]

validate_tsv_against_srt(rows, srt_entries, align_mode) ==
    LET id_rows == SelectSeq(rows, LAMBDA r : r # <<>> /\ isdigit(strip(r[1])))
        srt_with_id == SelectSeq(srt_entries, LAMBDA e : e.id # NoId)
        srt_ids == {srt_with_id[i].id : i \in 1..Len(srt_with_id)}
        tsv_ids == {int(id_rows[i][1]) : i \in 1..Len(id_rows)}
    IN  IF Len(id_rows) # Len(rows)
        THEN Verdict(FALSE, "non_numeric_ids", <<>>, <<>>)
        ELSE IF align_mode = "seq"
        THEN (IF Len(id_rows) # Len(srt_entries)
              THEN Verdict(FALSE, "count_mismatch", <<>>, <<>>)
              ELSE Verdict(TRUE, "consistent_for_seq", <<>>, <<>>))
        ELSE IF Len(srt_with_id) # Len(srt_entries)
        THEN Verdict(FALSE, "srt_missing_ids", <<>>, <<>>)
        ELSE IF Len(id_rows) # Len(srt_with_id)
        THEN Verdict(FALSE, "count_mismatch", <<>>, <<>>)
        ELSE IF tsv_ids # srt_ids
        THEN Verdict(FALSE, "id_set_differs",
                     Take(sorted(srt_ids \ tsv_ids), SampleLimit),
                     Take(sorted(tsv_ids \ srt_ids), SampleLimit))
        ELSE Verdict(TRUE, "ids_match", <<>>, <<>>)

(***************************************************************************)
(* cmd_rejoin: preflight, optional repair, validation, extraction, merge.  *)
(***************************************************************************)
\* any((nf < 2 or nf > 3) for nf in rep.field_histogram)
malformed(rows) == \E i \in 1..Len(rows) : Len(rows[i]) < 2 \/ Len(rows[i]) > 3

\* The outcome of the command: "ok" (the merged captions are written),
\* "exit" (SystemExit with a message) or "crash" (an uncaught ValueError).
Outcome(status, why, merged, checked) ==
    [status |-> status, why |-> why, merged |-> merged, validation |-> checked]

NotValidated == Verdict(FALSE, "not_run", <<>>, <<>>)

cmd_rejoin(original_entries, read, align_mode, strict_mode, translation_col, do_fix) ==
    LET rows == IF malformed(read) THEN fix_tsv_rows_merge_middle_columns(read) ELSE read
        checked == validate_tsv_against_srt(rows, original_entries, align_mode)
        extracted == parse_translated_pairs_from_rows(rows, translation_col)
        joined == rejoin_translations(original_entries, extracted.pairs,
                                      align_mode, strict_mode)
    IN  IF original_entries = <<>>
        THEN Outcome("exit", "no_entries", <<>>, NotValidated)
        ELSE IF malformed(read) /\ ~do_fix
        THEN Outcome("exit", "aborted", <<>>, NotValidated)
        ELSE IF ~checked.ok /\ strict_mode
        THEN Outcome("exit", "validation_failed", <<>>, checked)
        ELSE IF ~extracted.ok
        THEN Outcome("crash", "row_lacks_column", <<>>, checked)
        ELSE IF ~joined.ok
        THEN Outcome("crash", joined.error, <<>>, checked)
        ELSE Outcome("ok", "rejoined", joined.merged, checked)

(***************************************************************************)
(* The caption parser: parse_srt.                                          *)
(***************************************************************************)
\* The length and the number of repetitions of the longest match of
\* (?:\r?\n)* at position i of s.
RECURSIVE newline_units(_, _)
newline_units(s, i) ==
    IF i <= Len(s) /\ s[i] = "\n"
    THEN LET r == newline_units(s, i + 1)
         IN  [len |-> r.len + 1, count |-> r.count + 1]
    ELSE IF i + 1 <= Len(s) /\ s[i] = "\r" /\ s[i + 1] = "\n"
         THEN LET r == newline_units(s, i + 2)
              IN  [len |-> r.len + 2, count |-> r.count + 1]
         ELSE [len |-> 0, count |-> 0]

\* re.split(r"(?:\r?\n){2,}", s)
RECURSIVE split_blocks_from(_, _, _)
split_blocks_from(s, i, cur) ==
    IF i > Len(s) THEN <<cur>>
    ELSE LET u == newline_units(s, i)
         IN  IF u.count >= 2
             THEN <<cur>> \o split_blocks_from(s, i + u.len, <<>>)
             ELSE split_blocks_from(s, i + 1, Append(cur, s[i]))

split_blocks(s) == split_blocks_from(s, 1, <<>>)

\* str.splitlines(): the line ends are \n, \r\n and \r; no final empty line.
RECURSIVE splitlines_from(_, _, _)
splitlines_from(s, i, cur) ==
    IF i > Len(s) THEN (IF cur = <<>> THEN <<>> ELSE <<cur>>)
    ELSE IF s[i] = "\r" /\ i + 1 <= Len(s) /\ s[i + 1] = "\n"
         THEN <<cur>> \o splitlines_from(s, i + 2, <<>>)
    ELSE IF s[i] \in {"\n", "\r"}
         THEN <<cur>> \o splitlines_from(s, i + 1, <<>>)
    ELSE splitlines_from(s, i + 1, Append(cur, s[i]))

splitlines(s) == splitlines_from(s, 1, <<>>)

\* lines = [ln.strip() for ln in lines_raw if ln.strip() != ""]
RECURSIVE stripped_nonblank(_)
stripped_nonblank(lines_raw) ==
    IF lines_raw = <<>> THEN <<>>
    ELSE IF strip(Head(lines_raw)) = <<>> THEN stripped_nonblank(Tail(lines_raw))
    ELSE <<strip(Head(lines_raw))>> \o stripped_nonblank(Tail(lines_raw))

block_lines(b) == stripped_nonblank(splitlines(b))

\* line.find("-->", i), 1-based; 0 when "-->" does not occur from i on.
RECURSIVE find_arrow(_, _)
find_arrow(line, i) ==
    IF i + 2 > Len(line) THEN 0
    ELSE IF line[i] = "-" /\ line[i + 1] = "-" /\ line[i + 2] = ">" THEN i
    ELSE find_arrow(line, i + 1)

\* "-->" in line
contains_arrow(line) == find_arrow(line, 1) # 0

\* line.split("-->")
RECURSIVE split_arrow_from(_, _)
split_arrow_from(line, i) ==
    LET at == find_arrow(line, i)
    IN  IF at = 0 THEN <<SubSeq(line, i, Len(line))>>
        ELSE <<SubSeq(line, i, at - 1)>> \o split_arrow_from(line, at + 3)

split_arrow(line) == split_arrow_from(line, 1)

\* How many lines of a block are searched for the timing line: lines[:4].
TimingSearch == 4

\* The 1-based position of the first of lines[:4] that contains "-->";
\* 0 when there is none (timing_idx is None).
RECURSIVE find_timing(_, _)
find_timing(lines, i) ==
    IF i > Min(TimingSearch, Len(lines)) THEN 0
    ELSE IF contains_arrow(lines[i]) THEN i
    ELSE find_timing(lines, i + 1)

Rejected == [accepted |-> FALSE, entry |-> Entry(0, NoId, <<>>, <<>>, <<>>, <<>>)]

\* One iteration of "for b in blocks": the block is skipped (continue) or
\* yields an entry, whose seq the caller numbers.
parse_block(b) ==
    LET lines == block_lines(b)
        timing_idx == find_timing(lines, 1)
    IN  IF lines = <<>> \/ timing_idx = 0 THEN Rejected
        ELSE LET cap_id == IF timing_idx >= 2 /\ isdigit(lines[1])
                           THEN int(lines[1]) ELSE NoId
                 halves == split_arrow(lines[timing_idx])
                 text_lines == SubSeq(lines, timing_idx + 1, Len(lines))
                 text == IF text_lines = <<>> THEN <<>>
                         ELSE normalize_space(join(<<" ">>, text_lines))
             IN  IF Len(halves) # 2 THEN Rejected
                 ELSE [accepted |-> TRUE,
                       entry |-> Entry(0, cap_id, strip(halves[1]), strip(halves[2]),
                                       text_lines, text)]

\* Mutant: every block of the file takes a number, accepted or not.
next_seq_every_block(seq, accepted) == seq + 1

\* "seq += 1", reached only past every "continue" of the loop body.
next_seq(seq, accepted) == IF accepted THEN seq + 1 ELSE seq

(***************************************************************************)
(* State.                                                                  *)
(***************************************************************************)
VARIABLES
    entries,            \* cmd_clean: the parsed captions being cleaned
    idx,                \* cmd_clean: position of the for loop (next entry)
    cleaned,            \* cmd_clean: the records emitted so far
    prev_window_text,   \* cmd_clean: the rolling window
    clean_pc,           \* cmd_clean: "start", "loop", "done" or "failed"
    branch,             \* cmd_clean: the branch the last iteration took
    pass                \* 1: cleaning the input; 2: cleaning clean's own output

clean_vars == <<entries, idx, cleaned, prev_window_text, clean_pc, branch, pass>>

VARIABLES
    original_entries,   \* rejoin: the captions the timestamps come from
    tsv_rows,           \* rejoin: the rows read from the translated table
    align,              \* rejoin: "id" or "seq"
    strict,             \* rejoin: the --strict flag
    translation_col,    \* rejoin: --tsv-translation-col
    round_trip,         \* whether the table is prep's own output, filled in
    rj_pc,              \* rejoin: which calls have been made
    validation,         \* the result of validate_tsv_against_srt
    extracted,          \* the result of parse_translated_pairs_from_rows
    rejoined,           \* the result of rejoin_translations
    cmd_out             \* the outcome of cmd_rejoin

rejoin_inputs == <<original_entries, tsv_rows, align, strict, translation_col, round_trip>>

rejoin_results == <<validation, extracted, rejoined, cmd_out>>

rejoin_vars == <<rejoin_inputs, rj_pc, rejoin_results>>

VARIABLES
    fixed_rows,         \* the result of fix_tsv_rows_merge_middle_columns
    repair_pc           \* "idle", "ready" or "fixed"

repair_vars == <<fixed_rows, repair_pc>>

VARIABLES
    raw,                \* parse_srt: the text of the file, before .strip()
    blocks,             \* parse_srt: the blocks the text is split into
    block_no,           \* parse_srt: position of "for b in blocks"
    parsed,             \* parse_srt: the list "entries"
    seq,                \* parse_srt: the counter "seq"
    parse_pc            \* "idle", "start", "loop" or "done"

parse_vars == <<raw, blocks, block_no, parsed, seq, parse_pc>>

VARIABLES
    ov_prev,            \* cmd_clean: a rolling window (prev_window_text)
    ov_text,            \* cmd_clean: the text of the caption that follows
    ov_drop,            \* cmd_clean: the local "drop"
    ov_new,             \* cmd_clean: the local "curr_new"
    ov_pc               \* "idle", "ready" or "trimmed"

overlap_vars == <<ov_prev, ov_text, ov_drop, ov_new, ov_pc>>

(***************************************************************************)
(* The clean command.                                                      *)
(***************************************************************************)
\* entries = parse_srt(...); if not entries: raise SystemExit(...);
\* cleaned = []; prev_window_text = ""
CleanStart ==
    /\ clean_pc = "start"
    /\ clean_pc' = IF entries = <<>> THEN "failed" ELSE "loop"
    /\ idx' = 1
    /\ cleaned' = <<>>
    /\ prev_window_text' = <<>>
    /\ branch' = "none"
    /\ UNCHANGED <<entries, pass, rejoin_vars>>
    /\ UNCHANGED <<repair_vars, parse_vars, overlap_vars>>

\* for e in entries: ...
CleanStep ==
    /\ clean_pc = "loop"
    /\ idx <= Len(entries)
    /\ LET r == clean_body(cleaned, prev_window_text, entries[idx])
       IN  /\ cleaned' = r.cleaned
           /\ prev_window_text' = r.prev_window_text
    /\ branch' = clean_branch(cleaned, prev_window_text, entries[idx])
    /\ idx' = idx + 1
    \* after the last entry: write_srt(cleaned, ...)
    /\ clean_pc' = IF idx = Len(entries) THEN "done" ELSE "loop"
    /\ UNCHANGED <<entries, pass, rejoin_vars>>
    /\ UNCHANGED <<repair_vars, parse_vars, overlap_vars>>

\* clean is run again, on the captions it produced.
CleanAgain ==
    /\ clean_pc = "done"
    /\ pass = 1
    /\ rj_pc = "idle"
    /\ pass' = 2
    /\ entries' = cleaned
    /\ clean_pc' = "start"
    /\ idx' = 1
    /\ cleaned' = <<>>
    /\ prev_window_text' = <<>>
    /\ branch' = "none"
    /\ UNCHANGED rejoin_vars
    /\ UNCHANGED <<repair_vars, parse_vars, overlap_vars>>

(***************************************************************************)
(* The caption inputs of clean.                                            *)
(***************************************************************************)
BaseTokens == {<<"a">>, <<"b">>}

\* Every text of at most n base tokens, single-spaced (display-normalised).
RECURSIVE TextsUpTo(_)
TextsUpTo(n) ==
    IF n = 0 THEN {<<>>}
    ELSE LET shorter == TextsUpTo(n - 1)
         IN  shorter \cup
             {IF t = <<>> THEN tok ELSE t \o <<" ">> \o tok :
                 t \in {u \in shorter : Len(split(u)) = n - 1}, tok \in BaseTokens}

\* Texts with punctuation, upper case, a punctuation-only token, the two
\* characters backslash, n, no comparison token at all, and three tokens.
SpecialTexts ==
    { <<"A", ",">>,
      <<">", ">", " ", "a">>,
      <<"a", " ", ">", ">">>,
      <<"a", "\\", "n", "b">>,
      <<">", ">">>,
      <<"b", " ", "a", " ", "b">> }

CleanTexts == TextsUpTo(MaxTokens) \cup SpecialTexts

\* How the captions of an input are numbered: by position, or not at all.
IdPatterns == {"own", "none"}

PatternId(pat, i) ==
    IF pat = "own" THEN i ELSE NoId

Stamp(kind, i) == <<kind, i>>

\* The entry parse_srt returns for the i-th accepted block.
ParsedEntry(i, id, text) ==
    Entry(i, id, Stamp("start", i), Stamp("end", i),
          IF text = <<>> THEN <<>> ELSE <<text>>, text)

CleanInputs ==
    UNION { { [i \in 1..n |-> ParsedEntry(i, PatternId(pat, i), texts[i])] :
                texts \in [1..n -> CleanTexts], pat \in IdPatterns } :
            n \in 0..MaxEntries }

(***************************************************************************)
(* The calls of the rejoin side.                                           *)
(***************************************************************************)
NoPairs == [ok |-> FALSE, pairs |-> <<>>]

NotRejoined == Raised("not_run", <<>>, <<>>)

NoOutcome == Outcome("none", "not_run", <<>>, NotValidated)

\* ok, msg = validate_tsv_against_srt(rows, original_entries, align)
Validate ==
    /\ rj_pc = "ready"
    /\ ~round_trip
    /\ validation' = validate_tsv_against_srt(tsv_rows, original_entries, align)
    /\ rj_pc' = "validated"
    /\ UNCHANGED <<clean_vars, rejoin_inputs, extracted, rejoined, cmd_out>>
    /\ UNCHANGED <<repair_vars, parse_vars, overlap_vars>>

\* pairs = parse_translated_pairs_from_rows(rows, translation_col)
ExtractPairs ==
    /\ rj_pc = "validated"
    /\ extracted' = parse_translated_pairs_from_rows(tsv_rows, translation_col)
    /\ rj_pc' = IF extracted'.ok THEN "paired" ELSE "pair_error"
    /\ UNCHANGED <<clean_vars, rejoin_inputs, validation, rejoined, cmd_out>>
    /\ UNCHANGED <<repair_vars, parse_vars, overlap_vars>>

\* merged = rejoin_translations(original_entries, pairs, align, strict)
Rejoin ==
    /\ rj_pc = "paired"
    /\ rejoined' = rejoin_translations(original_entries, extracted.pairs, align, strict)
    /\ rj_pc' = "merged"
    /\ UNCHANGED <<clean_vars, rejoin_inputs, validation, extracted, cmd_out>>
    /\ UNCHANGED <<repair_vars, parse_vars, overlap_vars>>

\* The rejoin command as a whole; do_fix is --tsv-auto-fix or the answer to
\* the prompt.
CmdRejoin ==
    /\ rj_pc = "ready"
    /\ \E do_fix \in BOOLEAN :
         cmd_out' = cmd_rejoin(original_entries, tsv_rows, align, strict,
                               translation_col, do_fix)
    /\ rj_pc' = "cmd_done"
    /\ UNCHANGED <<clean_vars, rejoin_inputs, validation, extracted, rejoined>>
    /\ UNCHANGED <<repair_vars, parse_vars, overlap_vars>>

\* The translator's work on one line of prep's three-column table when the
\* translation is the original text itself: column 3 is a copy of column 2.
fill_translation(line) == line \o split_tabs(line)[2]

\* prep on clean's output, the table filled in with the unmodified text and
\* read back for rejoin against the same captions.
PrepAndTranslate ==
    /\ clean_pc = "done"
    /\ pass = 1
    /\ rj_pc = "idle"
    /\ LET lines == write_translation_prep(cleaned, "original", "space", 3)
       IN  tsv_rows' = read_rows([i \in 1..Len(lines) |-> fill_translation(lines[i])])
    /\ original_entries' = cleaned
    /\ align' \in {"id", "seq"}
    /\ strict' = TRUE
    /\ translation_col' = "auto"
    /\ round_trip' = TRUE
    /\ rj_pc' = "ready"
    /\ UNCHANGED <<clean_vars, rejoin_results>>
    /\ UNCHANGED <<repair_vars, parse_vars, overlap_vars>>

(***************************************************************************)
(* The inputs of rejoin.                                                   *)
(***************************************************************************)
OrigIds == {NoId, 1, 2}

RejoinOriginals ==
    UNION { { [i \in 1..n |-> ParsedEntry(i, ids[i], <<"a">>)] : ids \in [1..n -> OrigIds] } :
            n \in 0..MaxOrig }

\* Rows as the reader splits them: two and three fields, an id with
\* surrounding blanks, an escaped line break, a repeated id, an empty
\* translation, and an id that is not a number.
RowSamples ==
    { << <<"1">>, <<"x">> >>,
      << <<"1">>, <<"a">>, <<"b">> >>,
      << <<" ", "2">>, <<"c", "\\", "n", "x">> >>,
      << <<"3">>, <<"a">>, <<>> >>,
      << <<"x">>, <<"a">> >> }

\* Tables with rows of one field and of four.
MalformedTables ==
    { << << <<"1">> >> >>,
      << << <<"1">>, <<"x">> >>, << <<"2">> >> >>,
      << << <<"2">>, <<"a">>, <<"b", " ", " ", "c">>, <<" ", "x", " ">> >> >>,
      << << <<"1">>, <<"a">>, <<"b">>, <<"c">> >>, << <<"2">>, <<"y">> >> >> }

RowLists == UNION { [1..n -> RowSamples] : n \in 0..MaxRows } \cup MalformedTables

RejoinCols == {"auto", "3"}

\* Captions numbered ids[1], ids[2], ... and a two-column table with one row
\* per id of row_ids.
NumberedEntries(ids) == [i \in 1..Len(ids) |-> ParsedEntry(i, ids[i], <<"a">>)]

NumberedRows(row_ids) ==
    [i \in 1..Len(row_ids) |-> <<str_of_int(row_ids[i]), <<"x">> \o str_of_int(row_ids[i])>>]

FromTo(a, b) == [i \in 1..(b - a + 1) |-> a + i - 1]

\* Inputs longer than the exhaustive ones: the examples {1,2,3} against
\* {1,2,4} and five captions against three rows, and id lists longer than
\* the error messages' sample.
LongInputs ==
    { [orig |-> <<1, 2, 3>>, rows |-> <<1, 2, 4>>],
      [orig |-> FromTo(1, 5), rows |-> FromTo(1, 3)],
      [orig |-> FromTo(1, SampleLimit + 2), rows |-> <<>>],
      [orig |-> FromTo(1, SampleLimit + 2),
       rows |-> FromTo(SampleLimit + 3, 2 * SampleLimit + 3)],
      [orig |-> FromTo(1, SampleLimit + 1), rows |-> FromTo(1, SampleLimit + 1)],
      [orig |-> <<1>>, rows |-> FromTo(1, SampleLimit + 1)] }

(***************************************************************************)
(* Row repair on its own.                                                  *)
(***************************************************************************)
\* Rows as the reader splits them, of one to five fields, with blanks
\* around and inside the fields, empty fields and an escaped line break.
RepairRowSamples ==
    { << <<"1">> >>,
      << <<"1">>, <<"x">> >>,
      << <<" ", "1", " ">>, <<"a", " ", " ", "b">> >>,
      << <<"1">>, <<" ", "x", " ">> >>,
      << <<"1", " ", " ", "2">>, <<"a", "\\", "n", "b">> >>,
      << <<>>, <<"x">> >>,
      << <<"1">>, <<"a">>, <<"b">> >>,
      << <<"1">>, <<" ">>, <<"x">> >>,
      << <<"1">>, <<" ">>, <<" ">>, <<"x", " ">> >>,
      << <<"2">>, <<"a", " ">>, <<" ", "b">>, <<"c">> >>,
      << <<"1">>, <<" ", "a", " ">>, <<" ">>, <<"b", " ", " ", "c", " ">>,
         <<" ", "x", " ", " ", "b">> >> }

RepairTables == UNION { [1..n -> RepairRowSamples] : n \in 0..MaxRows }

(***************************************************************************)
(* The parser's loop.                                                      *)
(***************************************************************************)
\* fixed = fix_tsv_rows_merge_middle_columns(rows)
FixRows ==
    /\ repair_pc = "ready"
    /\ fixed_rows' = fix_tsv_rows_merge_middle_columns(tsv_rows)
    /\ repair_pc' = "fixed"
    /\ UNCHANGED <<clean_vars, rejoin_vars, parse_vars, overlap_vars>>

\* raw = read_text(...).strip(); if not raw: return [];
\* blocks = re.split(...); entries = []; seq = 0
ParseStart ==
    /\ parse_pc = "start"
    /\ blocks' = IF strip(raw) = <<>> THEN <<>> ELSE split_blocks(strip(raw))
    /\ parse_pc' = IF strip(raw) = <<>> THEN "done" ELSE "loop"
    /\ block_no' = 1
    /\ parsed' = <<>>
    /\ seq' = 0
    /\ UNCHANGED <<raw, clean_vars, rejoin_vars, repair_vars, overlap_vars>>

\* for b in blocks: ...; after the last block: return entries
ParseBlock ==
    /\ parse_pc = "loop"
    /\ block_no <= Len(blocks)
    /\ LET r == parse_block(blocks[block_no])
       IN  /\ seq' = next_seq(seq, r.accepted)
           /\ parsed' = IF r.accepted
                        THEN Append(parsed, [r.entry EXCEPT !.seq = seq'])
                        ELSE parsed
    /\ block_no' = block_no + 1
    /\ parse_pc' = IF block_no = Len(blocks) THEN "done" ELSE "loop"
    /\ UNCHANGED <<raw, blocks, clean_vars, rejoin_vars, repair_vars, overlap_vars>>

(***************************************************************************)
(* The caption files given to the parser.                                  *)
(***************************************************************************)
Arrow == <<"-", "-", ">">>

Timing == <<"0", " ">> \o Arrow \o <<" ", "1">>

\* Blocks, as lists of lines: a numbered caption; one without a number; one
\* without a timing line; a timing line with two separators; the timing
\* line fifth; a blank line inside a block; the timing line fourth and no
\* text; a bare separator; a separator in the text; a line with two
\* separators before a proper timing line.
BlockSamples ==
    { << <<"1">>, Timing, <<"a">> >>,
      << Timing, <<"a", " ", " ", "b">> >>,
      << <<"1">>, <<"a">> >>,
      << <<"1">>, Timing \o <<" ">> \o Arrow \o <<" ", "2">>, <<"a">> >>,
      << <<"a">>, <<"b">>, <<"c">>, <<"x">>, Timing, <<"a">> >>,
      << <<"2">>, <<" ">>, <<" ", "0">> \o Arrow \o <<"1", " ">>, <<"a">>, <<"b">> >>,
      << <<"a">>, <<"b">>, <<"c">>, Timing >>,
      << Arrow >>,
      << <<"x">>, <<"1">>, Timing, <<"a", " ">> \o Arrow \o <<" ", "b">> >>,
      << <<"a">> \o Arrow \o <<"b">> \o Arrow \o <<"c">>, Timing, <<"a">> >> }

\* Files of up to MaxBlocks blocks, one empty line between two blocks, and
\* files with other line ends, surrounding blank lines, a line of blanks
\* between two captions, and only blanks.
SpecialFiles ==
    { <<" ", "\n">>,
      <<"\n">> \o Timing \o <<"\n", "a", "\n", "\n", "\n">> \o Timing \o <<"\n">>,
      <<"1", "\r", "\n">> \o Timing \o <<"\r", "\n", "\r", "\n", "x", "\r", "\n", "\r", "\n">>
          \o Timing \o <<"\r", "\n", "b">>,
      Timing \o <<"\n", "a", "\n", " ", "\n">> \o Timing \o <<"\n", "b">>,
      <<"x", "\n", "\n", " ", "\n", "\n", "2", "\n">> \o Timing }

ParseInputs ==
    { join(<<"\n", "\n">>, [i \in DOMAIN bs |-> join(<<"\n">>, bs[i])]) :
        bs \in UNION { [1..n -> BlockSamples] : n \in 0..MaxBlocks } }
    \cup SpecialFiles

(***************************************************************************)
(* The trimming of one caption against a window.                           *)
(***************************************************************************)
\* A text of single-letter tokens and one of words, written token by token.
Spaced(tokens) == join(<<" ">>, tokens)

TheQuickBrownFox ==
    Spaced(<< <<"t", "h", "e">>, <<"q", "u", "i", "c", "k">>,
              <<"b", "r", "o", "w", "n">>, <<"f", "o", "x">> >>)

BrownFoxJumps ==
    Spaced(<< <<"b", "r", "o", "w", "n">>, <<"f", "o", "x">>,
              <<"j", "u", "m", "p", "s">> >>)

\* Windows and captions beyond the exhaustive texts: a repeated token (two
\* overlaps of different length), punctuation-only tokens before, between
\* and after the matched tokens, punctuation and case on the tokens, and
\* the example of the longest-overlap rule.
OverlapTexts ==
    CleanTexts \cup
    { Spaced(<< <<"a">>, <<"a">> >>),
      Spaced(<< <<"a">>, <<"a">>, <<"b">> >>),
      Spaced(<< <<"x">>, <<"a">>, <<"b">> >>),
      Spaced(<< <<">", ">">>, <<"a">>, <<"-">>, <<"b">>, <<"-">>, <<"c">> >>),
      Spaced(<< <<"A", ",">>, <<"B", "!">>, <<".", ".">> >>),
      Spaced(<< <<"b">>, <<">", ">">>, <<"a">> >>),
      TheQuickBrownFox,
      BrownFoxJumps }

\* curr_text = normalize_text(e["text"]);
\* drop = longest_suffix_prefix_overlap(prev_window_text, curr_text);
\* curr_new = " ".join(raw_tokens[drop:]).strip() or curr_text
TrimAgainstWindow ==
    /\ ov_pc = "ready"
    /\ ov_drop' = longest_suffix_prefix_overlap(ov_prev, normalize_text(ov_text))
    /\ ov_new' = clean_candidate(ov_prev, normalize_text(ov_text))
    /\ ov_pc' = "trimmed"
    /\ UNCHANGED <<ov_prev, ov_text, clean_vars, rejoin_vars, repair_vars, parse_vars>>

vars == <<clean_vars, rejoin_vars, repair_vars, parse_vars, overlap_vars>>

\* The rejoin side before any of its calls.
RejoinIdle ==
    /\ original_entries = <<>>
    /\ tsv_rows = <<>>
    /\ align = "id"
    /\ strict = TRUE
    /\ translation_col = "auto"
    /\ rj_pc = "idle"

ParseIdle ==
    /\ raw = <<>>
    /\ parse_pc = "idle"

OverlapIdle ==
    /\ ov_prev = <<>>
    /\ ov_text = <<>>
    /\ ov_pc = "idle"

\* clean on a parsed caption file.
InitClean ==
    /\ entries \in CleanInputs
    /\ clean_pc = "start"
    /\ RejoinIdle
    /\ repair_pc = "idle"
    /\ ParseIdle
    /\ OverlapIdle

\* rejoin on parsed captions and a translated table.
InitRejoin ==
    /\ entries = <<>>
    /\ clean_pc = "idle"
    /\ \/ /\ original_entries \in RejoinOriginals
          /\ tsv_rows \in RowLists
          /\ translation_col \in RejoinCols
       \/ /\ \E inp \in LongInputs :
                /\ original_entries = NumberedEntries(inp.orig)
                /\ tsv_rows = NumberedRows(inp.rows)
          /\ translation_col \in {"auto", "last"}
    /\ align \in {"id", "seq"}
    /\ strict \in BOOLEAN
    /\ rj_pc = "ready"
    /\ repair_pc = "idle"
    /\ ParseIdle
    /\ OverlapIdle

\* The row repair on a table as read.
InitRepair ==
    /\ entries = <<>>
    /\ clean_pc = "idle"
    /\ original_entries = <<>>
    /\ tsv_rows \in RepairTables
    /\ align = "id"
    /\ strict = TRUE
    /\ translation_col = "auto"
    /\ rj_pc = "idle"
    /\ repair_pc = "ready"
    /\ ParseIdle
    /\ OverlapIdle

\* The parser on the text of a caption file.
InitParse ==
    /\ entries = <<>>
    /\ clean_pc = "idle"
    /\ RejoinIdle
    /\ repair_pc = "idle"
    /\ raw \in ParseInputs
    /\ parse_pc = "start"
    /\ OverlapIdle

\* The trimming of a caption against a window.
InitOverlap ==
    /\ entries = <<>>
    /\ clean_pc = "idle"
    /\ RejoinIdle
    /\ repair_pc = "idle"
    /\ ParseIdle
    /\ ov_prev \in OverlapTexts
    /\ ov_text \in OverlapTexts
    /\ ov_pc = "ready"

Init ==
    /\ idx = 1
    /\ cleaned = <<>>
    /\ prev_window_text = <<>>
    /\ pass = 1
    /\ branch = "none"
    /\ round_trip = FALSE
    /\ validation = NotValidated
    /\ extracted = NoPairs
    /\ rejoined = NotRejoined
    /\ cmd_out = NoOutcome
    /\ fixed_rows = <<>>
    /\ blocks = <<>>
    /\ block_no = 1
    /\ parsed = <<>>
    /\ seq = 0
    /\ ov_drop = 0
    /\ ov_new = <<>>
    /\ (InitClean \/ InitRejoin \/ InitRepair \/ InitParse \/ InitOverlap)

Next ==
    \/ CleanStart
    \/ CleanStep
    \/ CleanAgain
    \/ PrepAndTranslate
    \/ Validate
    \/ ExtractPairs
    \/ Rejoin
    \/ CmdRejoin
    \/ FixRows
    \/ ParseStart
    \/ ParseBlock
    \/ TrimAgainstWindow

Spec == Init /\ [][Next]_vars

(***************************************************************************)
(* C1.  Idempotence of the deduplicator.                                   *)
(***************************************************************************)
SecondPassOver == pass = 2 /\ clean_pc \in {"done", "failed"}

\* C1 as stated: cleaning clean's own output emits the same records with
\* the same texts (nothing is dropped, trimmed or suppressed).
C1_Idempotent == SecondPassOver => cleaned = entries

\* Some record of the cleaned sequence begins, in comparison tokens, with
\* the tokens that end the record before it.
OutputOverlaps(recs) ==
    \E i \in 2..Len(recs) :
        longest_suffix_prefix_overlap(recs[i - 1].text, recs[i].text) > 0

\* C1 amended: cleaning clean's own output changes nothing exactly when no
\* record of that output overlaps the record before it; when one does, the
\* second pass trims or drops it.
C1_IdempotentUnlessOverlap ==
    SecondPassOver => (cleaned = entries <=> ~OutputOverlaps(entries))

\* A second pass over an output whose second record overlaps the first:
\* the pass has ended and has not emitted the records it was given.
C1_Witness ==
    /\ pass = 2
    /\ clean_pc = "done"
    /\ Len(entries) >= 2
    /\ OutputOverlaps(entries)
    /\ cleaned # entries

(***************************************************************************)
(* C2.  Identity preservation.                                             *)
(***************************************************************************)
\* r is e but for its text.
SameIdentity(r, e) ==
    /\ DOMAIN r = DOMAIN e
    /\ \A f \in DOMAIN e \ {"text"} : r[f] = e[f]

\* out is, record by record and in order, a copy of a subsequence of src
\* with only the texts replaced.
RECURSIVE CopiesInOrder(_, _)
CopiesInOrder(out, src) ==
    IF out = <<>> THEN TRUE
    ELSE IF src = <<>> THEN FALSE
    ELSE IF SameIdentity(Head(out), Head(src))
         THEN CopiesInOrder(Tail(out), Tail(src))
         ELSE CopiesInOrder(out, Tail(src))

\* C2: every record clean or rejoin emits is a copy of one source record
\* with start, end, id and seq unchanged, in the source's order; only the
\* text differs.
C2_IdentityPreserved ==
    /\ CopiesInOrder(cleaned, SubSeq(entries, 1, idx - 1))
    /\ CopiesInOrder(rejoined.merged, original_entries)
    /\ CopiesInOrder(cmd_out.merged, original_entries)

\* clean has trimmed a caption and rejoin has merged two captions or more.
C2_Witness ==
    /\ pass = 1
    /\ \E i \in 1..Len(cleaned) : cleaned[i].text # entries[cleaned[i].seq].text
    /\ cmd_out.status = "ok"
    /\ Len(cmd_out.merged) >= 2

(***************************************************************************)
(* C3.  Round trip through prep and rejoin.                                *)
(***************************************************************************)
AllHaveIds(recs) == \A i \in 1..Len(recs) : recs[i].id # NoId

\* C3: prep on clean's output, the translation column filled with the
\* unmodified text, then rejoin against the same captions, gives every
\* surviving caption the display text clean gave it.  (By position, or by
\* id when the captions are numbered.)
C3_RoundTrip ==
    (/\ round_trip
     /\ rj_pc = "cmd_done"
     /\ cleaned # <<>>
     /\ (align = "seq" \/ AllHaveIds(cleaned)))
        => /\ cmd_out.status = "ok"
           /\ Len(cmd_out.merged) = Len(cleaned)
           /\ \A i \in 1..Len(cleaned) : cmd_out.merged[i].text = cleaned[i].text

(***************************************************************************)
(* C4 - C8.  The alignment engine.                                         *)
(***************************************************************************)
OrigIdSet == {original_entries[i].id : i \in 1..Len(original_entries)}

TransIdSet == {extracted.pairs[i].id : i \in 1..Len(extracted.pairs)}

\* rejoin_translations has been called on the extracted pairs.
RejoinCalled(align_mode, strict_mode) ==
    rj_pc = "merged" /\ align = align_mode /\ strict = strict_mode

\* lst lists, without repeats, min(SampleLimit, |S|) members of S.
SamplesOf(lst, S) ==
    /\ Range(lst) \subseteq S
    /\ Cardinality(Range(lst)) = Len(lst)
    /\ Len(lst) = Min(SampleLimit, Cardinality(S))

\* C4: with every original numbered, strict alignment by id fails exactly
\* when the set of original ids differs from the set of translated ids; the
\* error then lists at most 10 original ids missing from the translation
\* and at most 10 translated ids absent from the originals, and nothing is
\* returned.
C4_StrictById ==
    (RejoinCalled("id", TRUE) /\ AllHaveIds(original_entries))
        => /\ ~rejoined.ok <=> OrigIdSet # TransIdSet
           /\ ~rejoined.ok =>
                /\ rejoined.merged = <<>>
                /\ SamplesOf(rejoined.missing, OrigIdSet \ TransIdSet)
                /\ SamplesOf(rejoined.extra, TransIdSet \ OrigIdSet)

\* Originals {1,2,3} against translated {1,2,4}: missing 3, extra 4.
C4_Witness ==
    /\ RejoinCalled("id", TRUE)
    /\ OrigIdSet = {1, 2, 3}
    /\ TransIdSet = {1, 2, 4}
    /\ ~rejoined.ok
    /\ rejoined.missing = <<3>>
    /\ rejoined.extra = <<4>>

\* C5: strict alignment by position (of one caption or more) succeeds only
\* when there are as many translated pairs as originals, and fails when
\* there are fewer or more.
C5_StrictBySeqEqualCounts ==
    (RejoinCalled("seq", TRUE) /\ original_entries # <<>>)
        => (rejoined.ok <=> Len(extracted.pairs) = Len(original_entries))

\* C6: when some original has no id, alignment by id always fails, strict
\* or not and whatever the table: rejoin_translations raises and returns
\* nothing, and validate_tsv_against_srt reports not ok.
C6_ByIdNeedsIds ==
    (align = "id" /\ ~AllHaveIds(original_entries))
        => /\ rj_pc \in {"validated", "paired", "pair_error", "merged"}
                => ~validation.ok
           /\ rj_pc = "merged" => (~rejoined.ok /\ rejoined.merged = <<>>)

\* Not strict, a table with pairs, and an original without id.
C6_Witness ==
    /\ RejoinCalled("id", FALSE)
    /\ ~AllHaveIds(original_entries)
    /\ \E i \in 1..Len(original_entries) : original_entries[i].id # NoId
    /\ extracted.pairs # <<>>
    /\ ~rejoined.ok
    /\ ~validation.ok

\* t is the text of the last pair with id oid, or empty when there is none.
IsLastTextFor(t, oid) ==
    IF \E j \in 1..Len(extracted.pairs) : extracted.pairs[j].id = oid
    THEN \E j \in 1..Len(extracted.pairs) :
            /\ extracted.pairs[j].id = oid
            /\ \A k \in (j + 1)..Len(extracted.pairs) : extracted.pairs[k].id # oid
            /\ t = extracted.pairs[j].text
    ELSE t = <<>>

\* C7: with every original numbered, alignment by id that is not strict
\* never fails and returns one record per original, in order: the original
\* with the text of the last pair of its id, or the empty text; pairs whose
\* id matches no original are ignored.
C7_LooseById ==
    (RejoinCalled("id", FALSE) /\ AllHaveIds(original_entries))
        => /\ rejoined.ok
           /\ Len(rejoined.merged) = Len(original_entries)
           /\ \A i \in 1..Len(original_entries) :
                /\ SameIdentity(rejoined.merged[i], original_entries[i])
                /\ IsLastTextFor(rejoined.merged[i].text, original_entries[i].id)

\* A repeated translated id with two texts, an original without
\* translation and a pair without original.
C7_Witness ==
    /\ RejoinCalled("id", FALSE)
    /\ AllHaveIds(original_entries)
    /\ rejoined.ok
    /\ \E i, j \in 1..Len(extracted.pairs) :
          /\ i < j
          /\ extracted.pairs[i].id = extracted.pairs[j].id
          /\ extracted.pairs[i].text # extracted.pairs[j].text
          /\ extracted.pairs[i].id \in OrigIdSet
    /\ OrigIdSet \ TransIdSet # {}

\* C8: alignment by position that is not strict never fails and returns
\* min(n_orig, n_trans) records: the i-th original with the text of the
\* i-th pair.
C8_LooseBySeq ==
    RejoinCalled("seq", FALSE)
        => /\ rejoined.ok
           /\ Len(rejoined.merged) = Min(Len(original_entries), Len(extracted.pairs))
           /\ \A i \in 1..Len(rejoined.merged) :
                /\ SameIdentity(rejoined.merged[i], original_entries[i])
                /\ rejoined.merged[i].text = extracted.pairs[i].text

\* Five originals and three rows: three merged records, no error.
C8_Witness ==
    /\ RejoinCalled("seq", FALSE)
    /\ Len(original_entries) = 5
    /\ Len(extracted.pairs) = 3
    /\ rejoined.ok
    /\ Len(rejoined.merged) = 3

(***************************************************************************)
(* C9.  The canonical shape of repaired rows.                              *)
(***************************************************************************)
\* The rows of the table that have at least two fields, in table order.
RECURSIVE RepairableRows(_)
RepairableRows(rows) ==
    IF rows = <<>> THEN <<>>
    ELSE IF Len(Head(rows)) >= 2
         THEN <<Head(rows)>> \o RepairableRows(Tail(rows))
         ELSE RepairableRows(Tail(rows))

HasTab(field) == \E i \in 1..Len(field) : field[i] = "\t"

\* Between the first field and the last: joined with tabs, then every run
\* of whitespace made one space and the ends trimmed.
MiddleJoined(parts) ==
    normalize_space(join(<<"\t">>, SubSeq(parts, 2, Len(parts) - 1)))

\* What holds of every repaired row whatever is said of its translation:
\* one row of three fields per input row of two or more fields, in order,
\* the id trimmed, the original empty or the collapsed join, no tab left.
RepairedShape ==
    LET kept == RepairableRows(tsv_rows)
    IN  /\ Len(fixed_rows) = Len(kept)
        /\ \A i \in 1..Len(kept) :
              /\ Len(fixed_rows[i]) = 3
              /\ fixed_rows[i][1] = strip(kept[i][1])
              /\ fixed_rows[i][2] = IF Len(kept[i]) = 2 THEN <<>>
                                    ELSE MiddleJoined(kept[i])
              /\ \A k \in 1..3 : ~HasTab(fixed_rows[i][k])

\* The last field of the i-th row that has at least two fields.
LastField(i) ==
    LET kept == RepairableRows(tsv_rows)
    IN  kept[i][Len(kept[i])]

\* C9 as stated: the translation of a repaired row is the row's last field
\* (field2 of a two-field row) as it stands.
C9_LastFieldKept ==
    repair_pc = "fixed"
        => /\ RepairedShape
           /\ \A i \in 1..Len(fixed_rows) : fixed_rows[i][3] = LastField(i)

\* C9, amended: the translation of a repaired row is the row's last field
\* trimmed and with every run of whitespace made a single space; the rest of
\* the canonical shape is as stated.
C9_RepairedRows ==
    repair_pc = "fixed"
        => /\ RepairedShape
           /\ \A i \in 1..Len(fixed_rows) :
                fixed_rows[i][3] = normalize_space(LastField(i))

\* A table with a one-field row, dropped, and a row of four or more fields
\* whose last field is not returned as it stands.
C9_Witness ==
    /\ repair_pc = "fixed"
    /\ Len(tsv_rows) = 2
    /\ Len(fixed_rows) = 1
    /\ \E i \in 1..2 :
          /\ Len(tsv_rows[i]) >= 4
          /\ fixed_rows[1][3] # tsv_rows[i][Len(tsv_rows[i])]
          /\ fixed_rows[1][2] # <<>>

(***************************************************************************)
(* C10.  The parser's sequence numbers.                                    *)
(***************************************************************************)
\* A block is kept when, among its first four non-empty lines, there is one
\* that contains the separator, and the first such line splits on the
\* separator into exactly a start and an end.
WellFormed(b) ==
    LET ls == block_lines(b)
    IN  \E i \in 1..Min(TimingSearch, Len(ls)) :
          /\ contains_arrow(ls[i])
          /\ \A j \in 1..(i - 1) : ~contains_arrow(ls[j])
          /\ Len(split_arrow(ls[i])) = 2

\* The blocks the loop has been through.
BlocksDone == SubSeq(blocks, 1, block_no - 1)

\* C10: the records of parse_srt are numbered 1, 2, ..., n in output order;
\* of the blocks gone through exactly the well-formed ones have a record,
\* so a discarded block takes no number, and the loop goes through every
\* block of the file.
C10_SeqNumbering ==
    /\ \A i \in 1..Len(parsed) : parsed[i].seq = i
    /\ seq = Len(parsed)
    /\ parse_pc \in {"loop", "done"}
          => Len(parsed) = Cardinality({k \in 1..Len(BlocksDone) : WellFormed(BlocksDone[k])})
    /\ parse_pc = "done" => block_no = Len(blocks) + 1

\* A file whose first block has a timing line with two separators and
\* whose second block is a caption: one record, numbered 1.
C10_Witness ==
    /\ parse_pc = "done"
    /\ Len(blocks) = 2
    /\ ~WellFormed(blocks[1])
    /\ find_timing(block_lines(blocks[1]), 1) # 0
    /\ WellFormed(blocks[2])
    /\ Len(parsed) = 1
    /\ parsed[1].seq = 1

(***************************************************************************)
(* C11.  The longest overlap and the raw tokens it drops.                  *)
(***************************************************************************)
\* The comparison tokens of a text: its tokens sanitised, the empty left out.
ComparisonTokens(text) ==
    LET toks == split(normalize_text(text))
        kept == {i \in 1..Len(toks) : sanitize_word(toks[i]) # <<>>}
    IN  [j \in 1..Cardinality(kept) |->
            sanitize_word(toks[CHOOSE i \in kept :
                                 Cardinality({h \in kept : h <= i}) = j])]

\* The k for which the last k comparison tokens of prev are the first k of
\* curr.
OverlapLengths(prev, curr) ==
    LET p == ComparisonTokens(prev)
        c == ComparisonTokens(curr)
    IN  {k \in 1..Min(Len(p), Len(c)) :
            \A j \in 1..k : p[Len(p) - k + j] = c[j]}

\* The position, among the raw tokens of curr, of its k-th comparison token.
RawPositionOf(curr, k) ==
    LET toks == split(normalize_text(curr))
    IN  CHOOSE r \in 1..Len(toks) :
          /\ sanitize_word(toks[r]) # <<>>
          /\ Cardinality({h \in 1..r : sanitize_word(toks[h]) # <<>>}) = k

\* C11: the drop count is 0 when no suffix of the window's comparison
\* tokens is a prefix of the caption's (in particular when either has
\* none); otherwise, with k the largest such length, it is the raw position
\* of the caption's k-th comparison token, and the candidate text is the
\* caption's raw tokens after that position.
C11_LongestOverlap ==
    ov_pc = "trimmed" =>
        LET lengths == OverlapLengths(ov_prev, ov_text)
            toks == split(normalize_text(ov_text))
        IN  IF lengths = {}
            THEN ov_drop = 0 /\ ov_new = normalize_text(ov_text)
            ELSE LET k == CHOOSE m \in lengths : \A h \in lengths : h <= m
                 IN  /\ ov_drop = RawPositionOf(ov_text, k)
                     /\ ov_new = Spaced(SubSeq(toks, ov_drop + 1, Len(toks)))

\* 'the quick brown fox' then 'brown fox jumps': 2 dropped, 'jumps' left.
C11_Witness ==
    /\ ov_pc = "trimmed"
    /\ ov_prev = TheQuickBrownFox
    /\ ov_text = BrownFoxJumps
    /\ ov_drop = 2
    /\ ov_new = <<"j", "u", "m", "p", "s">>

(***************************************************************************)
(* C12.  The rolling window.                                               *)
(***************************************************************************)
\* The loop has been through at least one caption.
CaptionProcessed == clean_pc \in {"loop", "done"} /\ idx > 1

\* C12: after the loop body has run for a caption, on each of its four
\* branches, the window is the full display-normalised text of that caption
\* as parsed, never the text left after trimming.
C12_WindowIsFullText ==
    CaptionProcessed
        => /\ branch \in {"empty_text", "empty_candidate", "duplicate", "emitted"}
           /\ prev_window_text = normalize_text(entries[idx - 1].text)

\* A caption emitted with its overlap trimmed off: the window is its full
\* text, not the text emitted.
C12_Witness ==
    /\ CaptionProcessed
    /\ branch = "emitted"
    /\ cleaned[Len(cleaned)].text # entries[idx - 1].text
    /\ prev_window_text = entries[idx - 1].text

(***************************************************************************)
(* C13.  Empty and exact-duplicate suppression.                            *)
(***************************************************************************)
\* C13: at every point of the loop, every record emitted so far has a text
\* that is not empty, no two consecutive emitted records have the same
\* text, and an iteration that ends on a "continue" has emitted nothing for
\* its caption.
C13_NoEmptyNoRepeat ==
    /\ \A i \in 1..Len(cleaned) : cleaned[i].text # <<>>
    /\ \A i \in 2..Len(cleaned) : cleaned[i].text # cleaned[i - 1].text
    /\ (CaptionProcessed /\ branch # "emitted")
          => \A i \in 1..Len(cleaned) :
                ~SameIdentity(cleaned[i], entries[idx - 1])

\* A caption whose text left after trimming is the text of the record
\* emitted before it: nothing is emitted for it.
C13_Witness ==
    /\ CaptionProcessed
    /\ branch = "duplicate"
    /\ cleaned # <<>>
    /\ cleaned[Len(cleaned)].text # entries[idx - 1].text
    /\ ~SameIdentity(cleaned[Len(cleaned)], entries[idx - 1])

(***************************************************************************)
(* C14.  What the validation promises to the strict merge.                 *)
(***************************************************************************)
\* Every row has two fields or three, and the translation is read from the
\* last column.
TwoOrThreeFields(rows) == \A i \in 1..Len(rows) : Len(rows[i]) \in {2, 3}

LastColumnRead == translation_col \in {"auto", "last"}

\* C14: on rows of two or three fields with the translation in the last
\* column, when validate_tsv_against_srt reports ok the strict
\* rejoin_translations on the pairs extracted from the same rows does not
\* fail and returns one record per original caption, called on its own or
\* within cmd_rejoin; and in strict mode cmd_rejoin stops on a validation
\* that is not ok, with nothing merged.
C14_ValidatedThenMerged ==
    /\ (RejoinCalled(align, TRUE) /\ validation.ok
            /\ TwoOrThreeFields(tsv_rows) /\ LastColumnRead)
          => /\ rejoined.ok
             /\ Len(rejoined.merged) = Len(original_entries)
    /\ (rj_pc = "cmd_done" /\ strict /\ cmd_out.validation.ok /\ LastColumnRead)
          => /\ cmd_out.status = "ok"
             /\ Len(cmd_out.merged) = Len(original_entries)
    /\ (rj_pc = "cmd_done" /\ strict /\ ~cmd_out.validation.ok)
          => /\ cmd_out.status = "exit"
             /\ cmd_out.merged = <<>>
             /\ cmd_out.validation.msg # "not_run"
                   => cmd_out.why = "validation_failed"

\* A table of a two-field row and a three-field row that validates against
\* two numbered captions and is merged strictly, by id.
C14_Witness ==
    /\ RejoinCalled("id", TRUE)
    /\ validation.ok
    /\ LastColumnRead
    /\ \E i, j \in 1..Len(tsv_rows) : Len(tsv_rows[i]) = 2 /\ Len(tsv_rows[j]) = 3
    /\ rejoined.ok
    /\ Len(rejoined.merged) = 2

=============================================================================
